---- MODULE Spec2Model ----
(***************************************************************************)
(* rich-ls.py: a directory tree lister.  main() validates the target,      *)
(* optionally resolves .gitignore rules by walking up the ancestors        *)
(* (load_gitignore_patterns), then walk_directory() recursively emits one  *)
(* tree node per visible entry.                                            *)
(*                                                                         *)
(* Strings are sequences of one-character strings, a path is the sequence  *)
(* of its component names from the filesystem root (<<>> is "/"), and an   *)
(* Optional value is <<>> (None) or <<v>>.                                 *)
(***************************************************************************)
EXTENDS Integers, Sequences, FiniteSets

VARIABLES
    fs,            \* the filesystem: path -> [kind, lines, listing]
    directory,     \* main's positional argument (a path)
    exclude,       \* --exclude: None or a list of glob patterns
    depth,         \* --depth: None or an integer
    show_hidden,   \* --show-hidden
    links,         \* --links
    gitignore,     \* --gitignore
    pc,            \* where main is
    patterns,      \* load_gitignore_patterns: the accumulated lines
    current_dir,   \* load_gitignore_patterns: the directory being looked at
    visited,       \* history: the directories the upward loop has looked at
    gitignore_spec, \* main's gitignore_spec: None or the lines of the PathSpec
    git_root,      \* main's git_root: None or a path
    tree,          \* the nodes added to the Tree, in the order they were added
    printed,       \* whether print(tree) happened
    stderr,        \* the lines echoed to standard error
    exit_code      \* None while running, then the process's exit code

vars == <<fs, directory, exclude, depth, show_hidden, links, gitignore, pc,
          patterns, current_dir, visited, gitignore_spec, git_root, tree, printed,
          stderr,
          exit_code>>

----------------------------------------------------------------------------
(* Optional values *)

None == <<>>

Some(v) == <<v>>

----------------------------------------------------------------------------
(* Characters and strings *)

\* str.lower() on one character
LowerChar(c) == CASE c = "A" -> "a"
                  [] c = "D" -> "d"
                  [] OTHER -> c

\* str.lower()
Lower(s) == [i \in 1..Len(s) |-> LowerChar(s[i])]

\* ord(): the code point of a character, which is what Python compares
Ord(c) == CASE c = "!" -> 33 [] c = "#" -> 35 [] c = "*" -> 42
            [] c = "." -> 46 [] c = "/" -> 47 [] c = "?" -> 63
            [] c = "A" -> 65 [] c = "D" -> 68 [] c = "_" -> 95
            [] c = "a" -> 97 [] c = "b" -> 98 [] c = "d" -> 100
            [] c = "e" -> 101 [] c = "g" -> 103 [] c = "h" -> 104
            [] c = "i" -> 105 [] c = "n" -> 110 [] c = "o" -> 111
            [] c = "p" -> 112 [] c = "r" -> 114 [] c = "t" -> 116
            [] c = "w" -> 119 [] c = "y" -> 121

RECURSIVE StrLessFrom(_, _, _)
\* s < t for Python strings, comparing from position i on
StrLessFrom(s, t, i) ==
    IF i > Len(t) THEN FALSE
    ELSE IF i > Len(s) THEN TRUE
    ELSE IF Ord(s[i]) < Ord(t[i]) THEN TRUE
    ELSE IF Ord(s[i]) > Ord(t[i]) THEN FALSE
    ELSE StrLessFrom(s, t, i + 1)

StrLess(s, t) == StrLessFrom(s, t, 1)

\* str.startswith
StartsWith(s, prefix) ==
    /\ Len(s) >= Len(prefix)
    /\ SubSeq(s, 1, Len(prefix)) = prefix

RECURSIVE GlobFrom(_, _, _, _)
\* whether name[i..] matches the glob pat[j..]: "*" is any run of characters,
\* "?" is any one character, anything else is itself (case-sensitive)
GlobFrom(name, i, pat, j) ==
    IF j > Len(pat) THEN i > Len(name)
    ELSE IF pat[j] = "*"
         THEN \/ GlobFrom(name, i, pat, j + 1)
              \/ i <= Len(name) /\ GlobFrom(name, i + 1, pat, j)
    ELSE IF i > Len(name) THEN FALSE
    ELSE IF pat[j] = "?" THEN GlobFrom(name, i + 1, pat, j + 1)
    ELSE pat[j] = name[i] /\ GlobFrom(name, i + 1, pat, j + 1)

\* fnmatch.fnmatch(name, pattern); os.path.normcase is the identity on POSIX
fnmatch(name, pat) == GlobFrom(name, 1, pat, 1)

----------------------------------------------------------------------------
(* Paths: pathlib.Path, as the sequence of component names below "/" *)

FsRoot == <<>>

\* Path.parent: the parent of "/" is "/"
Parent(p) == IF p = <<>> THEN <<>> ELSE SubSeq(p, 1, Len(p) - 1)

\* Path.name: the last component ("" for "/")
Name(p) == IF p = <<>> THEN <<>> ELSE p[Len(p)]

\* path / name
Join(p, n) == Append(p, n)

\* whether p is base or lies below it
IsUnder(p, base) ==
    /\ Len(p) >= Len(base)
    /\ SubSeq(p, 1, Len(base)) = base

\* Path.relative_to(base): None stands for the ValueError
RelativeTo(p, base) ==
    IF IsUnder(p, base) THEN Some(SubSeq(p, Len(base) + 1, Len(p))) ELSE None

\* Path.suffix: the part of the name from its last dot, when that dot is not
\* the first character and not the last
Suffix(p) ==
    LET n == Name(p)
        dots == {i \in 2..Len(n) : n[i] = "."}
    IN  IF dots = {} THEN <<>>
        ELSE LET last == CHOOSE i \in dots : \A j \in dots : j <= i
             IN  IF last = Len(n) THEN <<>> ELSE SubSeq(n, last, Len(n))

\* Path.resolve() of an absolute path without symbolic links: "." is dropped
\* and ".." steps up (and stays at "/")
RECURSIVE Resolve(_)
Resolve(p) ==
    IF p = <<>> THEN <<>>
    ELSE LET front == Resolve(SubSeq(p, 1, Len(p) - 1))
             last == p[Len(p)]
         IN  IF last = <<".">> THEN front
             ELSE IF last = <<".", ".">> THEN Parent(front)
             ELSE Append(front, last)

\* The filesystem readers take the filesystem f they read.

\* Path.exists()
Exists(f, p) == p \in DOMAIN f

\* Path.is_dir()
IsDir(f, p) == Exists(f, p) /\ f[p].kind = "dir"

\* Path.is_file(): a regular file; a FIFO or a socket is neither file nor dir
IsFile(f, p) == Exists(f, p) /\ f[p].kind = "file"

\* Path.iterdir(): the children, in the order the filesystem enumerates them
Iterdir(f, p) == [i \in 1..Len(f[p].listing) |-> Join(p, f[p].listing[i])]

\* open(p).read().splitlines()
ReadLines(f, p) == f[p].lines

----------------------------------------------------------------------------
(* The filesystems the program is run on *)

DotGit == <<".", "g", "i", "t">>

DotGitignore == <<".", "g", "i", "t", "i", "g", "n", "o", "r", "e">>

DotPy == <<".", "p", "y">>

Dunder == <<"_", "_">>

NameW == <<"w">>

NameD == <<"d">>

NameLowerA == <<"a">>

NameUpperA == <<"A">>

NameFifo == <<"b">>

NameAPy == <<"a", ".", "p", "y">>

NameHidden == <<".", "h">>

NameDunderP == <<"_", "_", "p">>

NameMissing == <<"n", "o">>

\* what a .gitignore in "/" may hold: a negation and a directory-only pattern
RootIgnoreLines == {<<<<"!", "a", ".", "p", "y">>, <<"d", "/">>>>}

\* what a .gitignore in "/w" may hold: nothing at all; or a comment, a blank
\* line, a glob and an anchored pattern
WIgnoreLines == {<<>>,
                 <<<<"#", "a">>, <<>>, <<"a", "*">>, <<"/", "w", "/", "d">>>>}

\* every entry a filesystem may hold, in a fixed order; `on` names the switch
\* that decides whether the entry is there
Universe ==
    << [path |-> <<>>,                              kind |-> "dir",   on |-> "always"],
       [path |-> <<DotGit>>,                        kind |-> "dir",   on |-> "git0"],
       [path |-> <<DotGitignore>>,                  kind |-> "file",  on |-> "ign0"],
       [path |-> <<NameW>>,                         kind |-> "dir",   on |-> "always"],
       [path |-> <<NameW, DotGit>>,                 kind |-> "dir",   on |-> "git1"],
       [path |-> <<NameW, DotGitignore>>,           kind |-> "file",  on |-> "ign1"],
       [path |-> <<NameW, NameUpperA>>,             kind |-> "file",  on |-> "extras"],
       [path |-> <<NameW, NameLowerA>>,             kind |-> "file",  on |-> "always"],
       [path |-> <<NameW, NameFifo>>,               kind |-> "other", on |-> "extras"],
       [path |-> <<NameW, NameD>>,                  kind |-> "dir",   on |-> "always"],
       [path |-> <<NameW, NameD, NameAPy>>,         kind |-> "file",  on |-> "always"],
       [path |-> <<NameW, NameD, NameHidden>>,      kind |-> "dir",   on |-> "always"],
       [path |-> <<NameW, NameD, NameHidden, NameLowerA>>, kind |-> "file", on |-> "always"],
       [path |-> <<NameW, NameD, NameDunderP>>,     kind |-> "dir",   on |-> "always"] >>

Reverse(s) == [i \in 1..Len(s) |-> s[Len(s) + 1 - i]]

\* the filesystem with the switches `sw` on, "/.gitignore" holding ign0 and
\* "/w/.gitignore" holding ign1, enumerated in the Universe's order or, with
\* rev, in the opposite order
MkFs(sw, ign0, ign1, rev) ==
    LET there(e) == e.on \in sw \cup {"always"}
        present == SelectSeq(Universe, there)
        paths == {present[i].path : i \in 1..Len(present)}
        entry(p) == CHOOSE e \in {present[i] : i \in 1..Len(present)} : e.path = p
        childOf(p) == LET isChild(e) == Len(e.path) = Len(p) + 1 /\ Parent(e.path) = p
                      IN  SelectSeq(present, isChild)
        names(p) == [i \in 1..Len(childOf(p)) |-> Name(childOf(p)[i].path)]
    IN  [p \in paths |->
            [kind |-> entry(p).kind,
             lines |-> IF p = <<DotGitignore>> THEN ign0
                       ELSE IF p = <<NameW, DotGitignore>> THEN ign1
                       ELSE <<>>,
             listing |-> IF entry(p).kind # "dir" THEN <<>>
                         ELSE IF rev THEN Reverse(names(p)) ELSE names(p)]]

Switches == {"git0", "ign0", "git1", "ign1", "extras"}

FsPool ==
    {MkFs(sw, ign0, ign1, rev) :
        sw \in SUBSET Switches, ign0 \in RootIgnoreLines, ign1 \in WIgnoreLines,
        rev \in BOOLEAN}

----------------------------------------------------------------------------
(* pathspec: PathSpec.from_lines("gitwildmatch", lines) and match_file *)

RECURSIVE SplitFrom(_, _, _, _)
\* str.split(sep): cur is the piece being read, from position i on
SplitFrom(s, sep, i, cur) ==
    IF i > Len(s) THEN <<cur>>
    ELSE IF s[i] = sep THEN <<cur>> \o SplitFrom(s, sep, i + 1, <<>>)
    ELSE SplitFrom(s, sep, i + 1, Append(cur, s[i]))

Split(s, sep) == SplitFrom(s, sep, 1, <<>>)

\* One compiled gitwildmatch line.  include is None for a blank line or a
\* comment, else Some(TRUE) or Some(FALSE) (a "!" negation).  segs are the
\* globs that must match consecutive path components; an anchored pattern
\* (a leading or an inner "/") starts at the first component, any other at
\* any component; dirOnly (a trailing "/") asks for a further component
\* below the match.
CompileLine(line) ==
    IF line = <<>> \/ line[1] = "#"
    THEN [include |-> None, anchored |-> FALSE, segs |-> <<>>, dirOnly |-> FALSE]
    ELSE LET neg == line[1] = "!"
             body == IF neg THEN Tail(line) ELSE line
             raw == Split(body, "/")
             dirOnly == raw[Len(raw)] = <<>>
             noTail == IF dirOnly /\ Len(raw) > 1
                       THEN SubSeq(raw, 1, Len(raw) - 1) ELSE raw
             lead == noTail[1] = <<>>
             segs == IF lead THEN Tail(noTail) ELSE noTail
         IN  [include |-> Some(~neg),
              anchored |-> lead \/ Len(noTail) > 1,
              segs |-> segs,
              dirOnly |-> dirOnly]

\* whether the compiled line pat matches the relative path rel with its
\* first glob on component k + 1
PatternMatchesAt(pat, rel, k) ==
    LET n == Len(pat.segs)
    IN  /\ IF pat.dirOnly THEN Len(rel) > k + n ELSE Len(rel) >= k + n
        /\ \A i \in 1..n : fnmatch(rel[k + i], pat.segs[i])

PatternMatches(pat, rel) ==
    /\ pat.include # None
    /\ IF pat.anchored THEN PatternMatchesAt(pat, rel, 0)
       ELSE \E k \in 0..Len(rel) : PatternMatchesAt(pat, rel, k)

RECURSIVE MatchFrom(_, _, _, _)
\* the verdict of the lines from position i on, given the verdict so far:
\* the last line that matches decides
MatchFrom(lines, rel, i, verdict) ==
    IF i > Len(lines) THEN verdict
    ELSE LET pat == CompileLine(lines[i])
         IN  MatchFrom(lines, rel, i + 1,
                       IF PatternMatches(pat, rel) THEN pat.include[1] ELSE verdict)

\* PathSpec.match_file(str(rel_path))
match_file(lines, rel) == MatchFrom(lines, rel, 1, FALSE)

----------------------------------------------------------------------------
(* load_gitignore_patterns *)

\* ExtendPatterns with the pattern list seeded with ".git", as a lister that
\* always hides the repository directory would
ExtendPatternsSeeded(f, pats, current) ==
    (IF pats = <<>> THEN <<DotGit>> ELSE pats) \o
    (IF Exists(f, Join(current, DotGitignore))
     THEN ReadLines(f, Join(current, DotGitignore))
     ELSE <<>>)

\* ExtendPatterns putting the new lines in front of the list (root first)
ExtendPatternsPrepend(f, pats, current) ==
    IF Exists(f, Join(current, DotGitignore))
    THEN ReadLines(f, Join(current, DotGitignore)) \o pats
    ELSE pats

\* lines 43-46: the lines of current/.gitignore, when there is one, are
\* appended to the pattern list
ExtendPatterns(f, pats, current) ==
    IF Exists(f, Join(current, DotGitignore))
    THEN pats \o ReadLines(f, Join(current, DotGitignore))
    ELSE pats

\* line 49: the directory holds a repository marker
HasGitMarker(f, current) == Exists(f, Join(current, DotGit))

\* line 54: the filesystem root is reached
AtFilesystemRoot(current) == Parent(current) = current

\* RootFallback using current_dir, which is "/" there, for the start directory
RootFallbackCurrent(pats, start) == IF pats # <<>> THEN Some(FsRoot) ELSE None

\* lines 56-57: the git_root when the loop ends at the filesystem root
RootFallback(pats, start) == IF pats # <<>> THEN Some(start) ELSE None

\* lines 62-64: the returned pair <<PathSpec, git_root>>
LoadReturn(pats, root) == IF pats # <<>> THEN <<Some(pats), root>> ELSE <<None, None>>

----------------------------------------------------------------------------
(* walk_directory *)

\* DepthReached with > for >=
DepthReachedOffByOne(max_depth, current_depth) ==
    max_depth # None /\ current_depth > max_depth[1]

\* line 80: the maximum depth is reached, nothing of this directory is shown
DepthReached(max_depth, current_depth) ==
    max_depth # None /\ current_depth >= max_depth[1]

\* line 85: the sort key (path.is_file(), path.name.lower()), compared as
\* Python compares tuples (False < True, then the strings)
KeyLess(f, p, q) ==
    IF IsFile(f, p) # IsFile(f, q) THEN ~IsFile(f, p)
    ELSE StrLess(Lower(Name(p)), Lower(Name(q)))

\* x put into the sorted sequence s, behind every element whose key is not
\* greater than its own (sorted() is stable)
InsertSorted(f, s, x) ==
    LET greater == {i \in 1..Len(s) : KeyLess(f, x, s[i])}
        at == IF greater = {} THEN Len(s) + 1
              ELSE CHOOSE i \in greater : \A j \in greater : i <= j
    IN  SubSeq(s, 1, at - 1) \o <<x>> \o SubSeq(s, at, Len(s))

RECURSIVE SortedPaths(_, _)
\* lines 83-86: sorted(paths, key=...)
SortedPaths(f, paths) ==
    IF paths = <<>> THEN <<>>
    ELSE InsertSorted(f, SortedPaths(f, SubSeq(paths, 1, Len(paths) - 1)),
                      paths[Len(paths)])

\* SkipHidden applied to regular files only
SkipHiddenFilesOnly(o, path) ==
    ~o.show_hidden /\ StartsWith(Name(path), <<".">>) /\ IsFile(fs, path)

\* line 89: a dot-file is skipped unless show_hidden
SkipHidden(o, path) == ~o.show_hidden /\ StartsWith(Name(path), <<".">>)

\* lines 93-101: the entry matches the ignore rules; a PathSpec is true when
\* it holds at least one line, and the check is skipped when the path is not
\* below git_root (the ValueError)
SkipIgnored(o, path) ==
    /\ o.gitignore_spec # None
    /\ o.gitignore_spec[1] # <<>>
    /\ o.git_root # None
    /\ LET rel == RelativeTo(path, o.git_root[1])
       IN  rel # None /\ match_file(o.gitignore_spec[1], rel[1])

\* SkipExcluded with all() for any()
SkipExcludedAll(o, path) ==
    /\ o.exclude_patterns # None
    /\ o.exclude_patterns[1] # <<>>
    /\ \A i \in 1..Len(o.exclude_patterns[1]) :
          fnmatch(Name(path), o.exclude_patterns[1][i])

\* lines 104-106: the bare name matches one of the exclusion globs
SkipExcluded(o, path) ==
    /\ o.exclude_patterns # None
    /\ o.exclude_patterns[1] # <<>>
    /\ \E i \in 1..Len(o.exclude_patterns[1]) :
          fnmatch(Name(path), o.exclude_patterns[1][i])

\* lines 110-119: the node of a directory, added under node `under` (0 is
\* the Tree that was passed in)
DirNode(o, path, under) ==
    [kind |-> "dir",
     name |-> Name(path),
     path |-> path,
     under |-> under,
     style |-> IF StartsWith(Name(path), Dunder) THEN "dim" ELSE "",
     icon |-> "open_file_folder",
     link |-> IF o.show_links THEN Some(path) ELSE None]

\* lines 125-132: the node of anything that is not a directory (the size
\* suffix of the label, read from stat(), is left out)
FileNode(o, path, under) ==
    [kind |-> "file",
     name |-> Name(path),
     path |-> path,
     under |-> under,
     style |-> "",
     icon |-> IF Suffix(path) = DotPy THEN "snake" ELSE "page",
     link |-> IF o.show_links THEN Some(path) ELSE None]

\* Branch handing the recursive call the tree it was given itself
BranchIsParent(acc, under) == under

\* lines 115-119: branch = tree.add(...), the node just added to acc, which
\* the recursive call gets as its tree
Branch(acc, under) == Len(acc)

\* NextDepth without the increment
NextDepthStuck(current_depth) == current_depth

\* line 122: the depth the recursive call is given
NextDepth(current_depth) == current_depth + 1

RECURSIVE walk_directory(_, _, _, _, _, _)
RECURSIVE WalkPaths(_, _, _, _, _, _, _)
\* lines 87-132: the for loop over the sorted paths, from position i on; acc
\* holds the nodes added so far
WalkPaths(f, acc, paths, i, under, o, current_depth) ==
    IF i > Len(paths) THEN acc
    ELSE LET path == paths[i]
         IN  IF SkipHidden(o, path) \/ SkipIgnored(o, path) \/ SkipExcluded(o, path)
             THEN WalkPaths(f, acc, paths, i + 1, under, o, current_depth)
             ELSE IF IsDir(f, path)
             THEN LET added == Append(acc, DirNode(o, path, under))
                  IN  WalkPaths(f,
                                walk_directory(f, added, path, Branch(added, under),
                                               o, NextDepth(current_depth)),
                                paths, i + 1, under, o, current_depth)
             ELSE WalkPaths(f, Append(acc, FileNode(o, path, under)),
                            paths, i + 1, under, o, current_depth)

\* lines 67-132: the nodes after walking directory dirp, whose own node is
\* `under`, with the options o
walk_directory(f, acc, dirp, under, o, current_depth) ==
    IF DepthReached(o.max_depth, current_depth) THEN acc
    ELSE WalkPaths(f, acc, SortedPaths(f, Iterdir(f, dirp)), 1, under, o,
                   current_depth)

----------------------------------------------------------------------------
(* main *)

\* line 173
dir_path == Resolve(directory)

\* line 176
NotExistMessage(d) == <<"Error: Directory '", d, "' ", "does not exist", ".">>

\* NotDirMessage with the other error's text
NotDirMessageCopied(d) == NotExistMessage(d)

\* line 180
NotDirMessage(d) == <<"Error: '", d, "' ", "is not a directory", ".">>

\* lines 198-201: the arguments main passes to walk_directory
MainOptions(spec, root) ==
    [exclude_patterns |-> exclude,
     gitignore_spec |-> spec,
     git_root |-> root,
     show_links |-> links,
     show_hidden |-> show_hidden,
     max_depth |-> depth]

\* the arguments main may be given
Targets == {FsRoot,
            <<NameW, NameD, <<".", ".">>>>,
            <<NameW, NameD>>,
            <<NameW, NameLowerA>>,
            <<NameW, NameMissing>>}

\* a literal glob, which names a directory of the tree, and a wildcard one
PatternD == <<"d">>

PatternStar == <<"a", "*">>

ExcludeChoices == {None, Some(<<PatternD>>), Some(<<PatternStar>>),
                   Some(<<PatternD, PatternStar>>)}

\* the largest --depth tried
MaxDepthOpt == 2

DepthChoices == {None} \cup {Some(k) : k \in 0..MaxDepthOpt}

\* main is entered with its arguments, on some filesystem
Init ==
    /\ fs \in FsPool
    /\ directory \in Targets
    /\ exclude \in ExcludeChoices
    /\ depth \in DepthChoices
    /\ show_hidden \in BOOLEAN
    /\ links \in BOOLEAN
    /\ gitignore \in BOOLEAN
    /\ pc = "main"
    /\ patterns = <<>>
    /\ current_dir = <<>>
    /\ visited = <<>>
    /\ gitignore_spec = None
    /\ git_root = None
    /\ tree = <<>>
    /\ printed = FALSE
    /\ stderr = <<>>
    /\ exit_code = None

\* lines 175-177
MainNotExist ==
    /\ pc = "main"
    /\ ~Exists(fs, dir_path)
    /\ stderr' = Append(stderr, NotExistMessage(directory))
    /\ exit_code' = Some(1)
    /\ pc' = "exit"
    /\ UNCHANGED <<fs, directory, exclude, depth, show_hidden, links, gitignore,
                   patterns, current_dir, visited, gitignore_spec, git_root,
                   tree, printed>>

\* lines 179-181
MainNotDir ==
    /\ pc = "main"
    /\ Exists(fs, dir_path)
    /\ ~IsDir(fs, dir_path)
    /\ stderr' = Append(stderr, NotDirMessage(directory))
    /\ exit_code' = Some(1)
    /\ pc' = "exit"
    /\ UNCHANGED <<fs, directory, exclude, depth, show_hidden, links, gitignore,
                   patterns, current_dir, visited, gitignore_spec, git_root,
                   tree, printed>>

\* lines 184-186 without --gitignore: no rules are resolved
MainSkipGitignore ==
    /\ pc = "main"
    /\ IsDir(fs, dir_path)
    /\ ~gitignore
    /\ pc' = "walk"
    /\ UNCHANGED <<fs, directory, exclude, depth, show_hidden, links, gitignore,
                   patterns, current_dir, visited, gitignore_spec, git_root,
                   tree, printed, stderr, exit_code>>

\* lines 186-187 and 37-39: load_gitignore_patterns(dir_path) is entered
MainLoadGitignore ==
    /\ pc = "main"
    /\ IsDir(fs, dir_path)
    /\ gitignore
    /\ patterns' = <<>>
    /\ current_dir' = dir_path
    /\ pc' = "load"
    /\ UNCHANGED <<fs, directory, exclude, depth, show_hidden, links, gitignore,
                   visited, gitignore_spec, git_root, tree, printed, stderr,
                   exit_code>>

\* lines 42-51 and 62-64: a loop pass that finds the repository marker
LoadFoundGit ==
    /\ pc = "load"
    /\ HasGitMarker(fs, current_dir)
    /\ patterns' = ExtendPatterns(fs, patterns, current_dir)
    /\ visited' = Append(visited, current_dir)
    /\ gitignore_spec' = LoadReturn(patterns', Some(current_dir))[1]
    /\ git_root' = LoadReturn(patterns', Some(current_dir))[2]
    /\ pc' = "walk"
    /\ UNCHANGED <<fs, directory, exclude, depth, show_hidden, links, gitignore,
                   current_dir, tree, printed, stderr, exit_code>>

\* lines 42-58 and 62-64: a loop pass that ends at the filesystem root
LoadAtRoot ==
    /\ pc = "load"
    /\ ~HasGitMarker(fs, current_dir)
    /\ AtFilesystemRoot(current_dir)
    /\ patterns' = ExtendPatterns(fs, patterns, current_dir)
    /\ visited' = Append(visited, current_dir)
    /\ gitignore_spec' = LoadReturn(patterns', RootFallback(patterns', dir_path))[1]
    /\ git_root' = LoadReturn(patterns', RootFallback(patterns', dir_path))[2]
    /\ pc' = "walk"
    /\ UNCHANGED <<fs, directory, exclude, depth, show_hidden, links, gitignore,
                   current_dir, tree, printed, stderr, exit_code>>

\* lines 42-60: a loop pass that steps up to the parent
LoadUp ==
    /\ pc = "load"
    /\ ~HasGitMarker(fs, current_dir)
    /\ ~AtFilesystemRoot(current_dir)
    /\ patterns' = ExtendPatterns(fs, patterns, current_dir)
    /\ visited' = Append(visited, current_dir)
    /\ current_dir' = Parent(current_dir)
    /\ UNCHANGED <<fs, directory, exclude, depth, show_hidden, links, gitignore,
                   pc, gitignore_spec, git_root, tree, printed, stderr, exit_code>>

\* lines 189-202: the tree is built and printed, and main returns
MainWalk ==
    /\ pc = "walk"
    /\ tree' = walk_directory(fs, <<>>, dir_path, 0,
                              MainOptions(gitignore_spec, git_root), 0)
    /\ printed' = TRUE
    /\ exit_code' = Some(0)
    /\ pc' = "exit"
    /\ UNCHANGED <<fs, directory, exclude, depth, show_hidden, links, gitignore,
                   patterns, current_dir, visited, gitignore_spec, git_root,
                   stderr>>

Next ==
    \/ MainNotExist
    \/ MainNotDir
    \/ MainSkipGitignore
    \/ MainLoadGitignore
    \/ LoadFoundGit
    \/ LoadAtRoot
    \/ LoadUp
    \/ MainWalk

Spec == Init /\ [][Next]_vars

----------------------------------------------------------------------------
(* What the claims speak of *)

\* main has walked the target and printed the tree
Walked == pc = "exit" /\ printed

\* the entries below the traversal root
Below == {p \in DOMAIN fs : IsUnder(p, dir_path) /\ p # dir_path}

\* the depth counter walk_directory holds when it lists the directory of p:
\* 0 for the root's own children, one more per directory step
DepthCounter(p) == Len(p) - Len(dir_path) - 1

\* p and its ancestor directories below the traversal root
ChainBelowRoot(p) == {SubSeq(p, 1, j) : j \in (Len(dir_path) + 1)..Len(p)}

\* the paths of the emitted nodes
Emitted == {tree[i].path : i \in 1..Len(tree)}

RECURSIVE NodeDepth(_)
\* how many nodes lie between node i and the Tree that main passed in
NodeDepth(i) == IF tree[i].under = 0 THEN 0 ELSE 1 + NodeDepth(tree[i].under)

\* neither the hidden-file filter, nor ignore rules, nor exclusion globs
NoOtherFilter == show_hidden /\ exclude = None /\ gitignore_spec = None

\* the options of this run
RunOptions == MainOptions(gitignore_spec, git_root)

\* the depth limit lets the entry p through
WithinDepth(p) == depth = None \/ DepthCounter(p) < depth[1]

----------------------------------------------------------------------------
(* C1 *)

\* C1, as stated: with max_depth = k and no other filter, every entry whose
\* depth counter is <= k has a node, no entry whose counter is > k has one,
\* and a directory whose counter is exactly k has a node without children.
C1_AsStated ==
    (Walked /\ NoOtherFilter /\ depth # None) =>
        /\ \A p \in Below : (DepthCounter(p) <= depth[1]) <=> (p \in Emitted)
        /\ \A i \in 1..Len(tree) :
              (tree[i].kind = "dir" /\ DepthCounter(tree[i].path) = depth[1]) =>
                  ~\E j \in 1..Len(tree) : tree[j].under = i

\* C1, amended: with max_depth = k and no other filter, every entry whose
\* depth counter is < k has a node, no entry whose counter is >= k has one
\* (every node hangs exactly as deep in the tree as its entry's depth counter
\* says, and less than k deep), and a directory node whose counter is exactly
\* k - 1 has no children.
C1_DepthLimit ==
    (Walked /\ NoOtherFilter /\ depth # None) =>
        /\ \A p \in Below : DepthCounter(p) < depth[1] => p \in Emitted
        /\ \A i \in 1..Len(tree) :
              /\ tree[i].path \in Below
              /\ NodeDepth(i) = DepthCounter(tree[i].path)
              /\ NodeDepth(i) < depth[1]
              /\ (tree[i].kind = "dir" /\ NodeDepth(i) + 1 = depth[1]) =>
                     ~\E j \in 1..Len(tree) : tree[j].under = i

\* a directory at the limit is shown, and entries lie below it unshown
C1_Witness ==
    /\ Walked /\ NoOtherFilter /\ depth # None
    /\ \E i \in 1..Len(tree) :
          /\ tree[i].kind = "dir"
          /\ NodeDepth(i) = 1
          /\ depth[1] = 2
          /\ \E p \in Below : Parent(p) = tree[i].path /\ p \notin Emitted

----------------------------------------------------------------------------
(* C2 *)

\* C2: with max_depth = k and no other filter, every entry reached through
\* fewer than k directory steps is emitted, none reached through k or more
\* is, and a directory reached through exactly k - 1 steps is emitted while
\* nothing below it is; without max_depth every entry is emitted.
C2_LevelsShown ==
    (Walked /\ NoOtherFilter) =>
        IF depth = None THEN Emitted = Below
        ELSE /\ Emitted = {p \in Below : DepthCounter(p) < depth[1]}
             /\ \A p \in Below :
                   (IsDir(fs, p) /\ DepthCounter(p) + 1 = depth[1]) =>
                       /\ p \in Emitted
                       /\ \A q \in Below : (IsUnder(q, p) /\ q # p) => q \notin Emitted

\* the test's case: k = 2 on a tree three levels deep
C2_Witness ==
    /\ Walked /\ NoOtherFilter /\ depth = Some(2)
    /\ \E p, q, r \in Below :
          /\ Parent(p) = dir_path /\ Parent(q) = p /\ Parent(r) = q
          /\ {p, q} \subseteq Emitted
          /\ r \notin Emitted

----------------------------------------------------------------------------
(* C3 *)

\* the entry passes the ignore rules and the exclusion globs
PassesOtherFilters(p) == ~SkipIgnored(RunOptions, p) /\ ~SkipExcluded(RunOptions, p)

\* C3: without show_hidden no emitted node's name starts with "."; with
\* show_hidden the emitted entries are exactly those that the ignore rules,
\* the exclusion globs and the depth limit let through (they and every
\* directory above them), dot-named or not.
C3_HiddenFiles ==
    Walked =>
        IF ~show_hidden
        THEN \A i \in 1..Len(tree) : ~StartsWith(tree[i].name, <<".">>)
        ELSE Emitted = {p \in Below :
                           /\ WithinDepth(p)
                           /\ \A q \in ChainBelowRoot(p) : PassesOtherFilters(q)}

\* a dot-named entry sits beside an emitted one and is not shown
C3_Witness ==
    /\ Walked /\ ~show_hidden
    /\ \E p, q \in Below :
          /\ Parent(p) = Parent(q)
          /\ StartsWith(Name(p), <<".">>)
          /\ q \in Emitted
          /\ p \notin Emitted

----------------------------------------------------------------------------
(* C4 *)

\* the paths walk_directory emits with the exclusion globs excl in place of
\* this run's, everything else as in this run
EmittedWith(excl) ==
    LET nodes == walk_directory(fs, <<>>, dir_path, 0,
                                [RunOptions EXCEPT !.exclude_patterns = excl], 0)
    IN  {nodes[i].path : i \in 1..Len(nodes)}

\* the entries that the exclusion globs excl take out of the tree
HiddenBy(excl) == EmittedWith(None) \ EmittedWith(excl)

\* C4, as stated: one pattern P hides all and only the entries whose bare
\* name matches P, and two patterns hide the union of what each hides alone.
C4_AsStated ==
    (Walked /\ exclude # None) =>
        /\ Len(exclude[1]) = 1 =>
              EmittedWith(None) \ Emitted =
                  {p \in EmittedWith(None) : fnmatch(Name(p), exclude[1][1])}
        /\ Len(exclude[1]) = 2 =>
              EmittedWith(None) \ Emitted =
                  HiddenBy(Some(<<exclude[1][1]>>)) \cup HiddenBy(Some(<<exclude[1][2]>>))

\* C4, amended: one pattern P hides all and only the entries whose own bare
\* name, or the bare name of a directory above them below the traversal
\* root, matches P; two patterns hide the union of what each hides alone.
C4_Exclusion ==
    (Walked /\ exclude # None) =>
        /\ Len(exclude[1]) = 1 =>
              EmittedWith(None) \ Emitted =
                  {p \in EmittedWith(None) :
                      \E q \in ChainBelowRoot(p) : fnmatch(Name(q), exclude[1][1])}
        /\ Len(exclude[1]) = 2 =>
              EmittedWith(None) \ Emitted =
                  HiddenBy(Some(<<exclude[1][1]>>)) \cup HiddenBy(Some(<<exclude[1][2]>>))

\* two patterns, each hiding something the other does not, and an entry
\* hidden only because its directory's name matches
C4_Witness ==
    /\ Walked /\ exclude # None /\ Len(exclude[1]) = 2
    /\ HiddenBy(Some(<<exclude[1][1]>>)) \ HiddenBy(Some(<<exclude[1][2]>>)) # {}
    /\ HiddenBy(Some(<<exclude[1][2]>>)) \ HiddenBy(Some(<<exclude[1][1]>>)) # {}
    /\ \E p \in EmittedWith(None) \ Emitted :
          \A i \in 1..2 : ~fnmatch(Name(p), exclude[1][i])
    /\ Emitted # {}

----------------------------------------------------------------------------
(* C5 *)

\* the filesystem f with the entries i and i + 1 of directory p's enumeration
\* swapped
SwapAt(f, p, i) ==
    [f EXCEPT ![p].listing = [@ EXCEPT ![i] = f[p].listing[i + 1],
                                       ![i + 1] = f[p].listing[i]]]

\* the same entries, enumerated in another order (one adjacent swap; every
\* other order is a chain of these)
Reenumerations(f) ==
    UNION {{SwapAt(f, p, i) : i \in 1..(Len(f[p].listing) - 1)} : p \in DOMAIN f}

\* C5: under every node, the directory nodes come before the file nodes,
\* each group in ascending order of the lower-cased name, and the emitted
\* sequence is the same whatever order the filesystem enumerates in.
C5_Ordering ==
    Walked =>
        /\ \A i, j \in 1..Len(tree) :
              (i < j /\ tree[i].under = tree[j].under) =>
                  /\ ~(tree[i].kind = "file" /\ tree[j].kind = "dir")
                  /\ tree[i].kind = tree[j].kind =>
                         ~StrLess(Lower(tree[j].name), Lower(tree[i].name))
        /\ \A g \in Reenumerations(fs) :
              walk_directory(g, <<>>, dir_path, 0, RunOptions, 0) = tree

----------------------------------------------------------------------------
(* C6, C9: load_gitignore_patterns *)

\* the start directory and its ancestors, leaf first, "/" last
UpChain == [i \in 1..(Len(dir_path) + 1) |-> SubSeq(dir_path, 1, Len(dir_path) + 1 - i)]

\* the places in UpChain of the directories that hold a .git
MarkerPlaces == {i \in 1..Len(UpChain) : Exists(fs, Join(UpChain[i], DotGit))}

\* where the upward walk has to stop: the nearest marker, else "/"
StopPlace ==
    IF MarkerPlaces = {} THEN Len(UpChain)
    ELSE CHOOSE i \in MarkerPlaces : \A j \in MarkerPlaces : i <= j

RECURSIVE LinesUpTo(_)
\* the lines of the .gitignore files of the first n directories of UpChain,
\* leaf first
LinesUpTo(n) ==
    IF n = 0 THEN <<>>
    ELSE LinesUpTo(n - 1) \o
         (IF Exists(fs, Join(UpChain[n], DotGitignore))
          THEN fs[Join(UpChain[n], DotGitignore)].lines ELSE <<>>)

\* load_gitignore_patterns(dir_path) has returned to main
Loaded == gitignore /\ IsDir(fs, dir_path) /\ pc \in {"walk", "exit"}

\* C6: load_gitignore_patterns returns (None, None) when no line was
\* collected, marker or not; else the nearest directory with a .git, where
\* the walk stopped, is the ignore root; else, with no marker up to "/", the
\* start directory is.  Rule set and ignore root are both there or both not.
C6_LoadResult ==
    Loaded =>
        /\ patterns = <<>> => (gitignore_spec = None /\ git_root = None)
        /\ (patterns # <<>> /\ MarkerPlaces # {}) =>
              /\ gitignore_spec = Some(patterns)
              /\ git_root = Some(UpChain[StopPlace])
              /\ visited[Len(visited)] = UpChain[StopPlace]
        /\ (patterns # <<>> /\ MarkerPlaces = {}) =>
              /\ gitignore_spec = Some(patterns)
              /\ git_root = Some(dir_path)
              /\ visited[Len(visited)] = FsRoot
        /\ (gitignore_spec = None) <=> (git_root = None)

\* patterns were found, no marker up to "/", and the start is not "/"
C6_Witness ==
    /\ Loaded
    /\ patterns # <<>>
    /\ MarkerPlaces = {}
    /\ dir_path # FsRoot
    /\ git_root = Some(dir_path)

\* C9: the pattern list is the concatenation, leaf first, of the lines of
\* every .gitignore from the start directory up to and including the nearest
\* directory with a .git (or "/"); nothing above the marker contributes, and
\* the loop looks at the directories of the chain one after the other, each
\* once, and ends at the stop.
C9_PatternAccumulation ==
    /\ pc = "load" =>
          /\ Len(visited) < StopPlace
          /\ visited = SubSeq(UpChain, 1, Len(visited))
          /\ current_dir = UpChain[Len(visited) + 1]
          /\ patterns = LinesUpTo(Len(visited))
    /\ Loaded =>
          /\ visited = SubSeq(UpChain, 1, StopPlace)
          /\ patterns = LinesUpTo(StopPlace)
          /\ patterns # <<>> => gitignore_spec = Some(patterns)

\* two .gitignore files were read on the way up, the upper one in the marker
\* directory
C9_Witness ==
    /\ Loaded
    /\ MarkerPlaces # {}
    /\ \E i \in 1..StopPlace :
          /\ i < StopPlace
          /\ Exists(fs, Join(UpChain[i], DotGitignore))
          /\ fs[Join(UpChain[i], DotGitignore)].lines # <<>>
    /\ Exists(fs, Join(UpChain[StopPlace], DotGitignore))
    /\ Len(patterns) > Len(LinesUpTo(StopPlace - 1))

----------------------------------------------------------------------------
(* C7 *)

\* no .gitignore in the target directory nor in any directory above it
NoGitignoreUpToRoot ==
    \A i \in 1..Len(UpChain) : ~Exists(fs, Join(UpChain[i], DotGitignore))

\* C7: with no .gitignore from the target up to "/", main with --gitignore
\* emits the very nodes main emits without it (walk_directory given no rule
\* set and no ignore root), marker or not.
C7_IgnoreNoOp ==
    (Walked /\ gitignore /\ NoGitignoreUpToRoot) =>
        tree = walk_directory(fs, <<>>, dir_path, 0, MainOptions(None, None), 0)

\* --gitignore, a marker on the way up, no .gitignore, and the marker shown
C7_Witness ==
    /\ Walked /\ gitignore /\ NoGitignoreUpToRoot
    /\ MarkerPlaces # {}
    /\ \E i \in 1..Len(tree) : tree[i].name = DotGit

----------------------------------------------------------------------------
(* C8 *)

\* the line s was echoed to standard error
Echoed(s) == \E i \in 1..Len(stderr) : \E j \in 1..Len(stderr[i]) : stderr[i][j] = s

\* nothing was resolved, walked or printed
NothingDone ==
    /\ visited = <<>> /\ patterns = <<>>
    /\ gitignore_spec = None /\ git_root = None
    /\ tree = <<>> /\ ~printed

\* C8: a target that does not exist ends main with exit code 1 and "does not
\* exist", one that is no directory with exit code 1 and "is not a
\* directory"; in both cases nothing is resolved, walked or printed, and exit
\* code 0 comes only with a target that is a directory.
C8_InvalidTarget ==
    /\ ~IsDir(fs, dir_path) => (pc \in {"main", "exit"} /\ NothingDone)
    /\ (pc = "exit" /\ ~Exists(fs, dir_path)) =>
          (exit_code = Some(1) /\ Echoed("does not exist"))
    /\ (pc = "exit" /\ Exists(fs, dir_path) /\ ~IsDir(fs, dir_path)) =>
          (exit_code = Some(1) /\ Echoed("is not a directory"))
    /\ exit_code = Some(0) => IsDir(fs, dir_path)

\* main ended on a target that is a file
C8_Witness ==
    /\ pc = "exit"
    /\ Exists(fs, dir_path) /\ ~IsDir(fs, dir_path)
    /\ exit_code = Some(1)
    /\ gitignore

----------------------------------------------------------------------------
(* C10 *)

\* the entry is taken out by one of the three filters
Skipped(p) ==
    \/ SkipHidden(RunOptions, p)
    \/ SkipIgnored(RunOptions, p)
    \/ SkipExcluded(RunOptions, p)

\* C10: every node is attached under the node of its entry's parent
\* directory, emitted before it (or under the Tree passed in, for the root's
\* own children); no entry has two nodes; and below a directory that a
\* filter skips nothing is emitted.
C10_AncestorClosure ==
    Walked =>
        /\ \A i \in 1..Len(tree) :
              IF Parent(tree[i].path) = dir_path THEN tree[i].under = 0
              ELSE /\ tree[i].under \in 1..(i - 1)
                   /\ tree[tree[i].under].path = Parent(tree[i].path)
                   /\ tree[tree[i].under].kind = "dir"
        /\ \A i, j \in 1..Len(tree) : tree[i].path = tree[j].path => i = j
        /\ \A p \in Below :
              (IsDir(fs, p) /\ Skipped(p)) =>
                  \A q \in Below : IsUnder(q, p) => q \notin Emitted

\* a skipped directory holds an entry that passes every filter itself, beside
\* a directory that is shown with its contents
C10_Witness ==
    /\ Walked
    /\ \E p, q \in Below :
          /\ IsDir(fs, p) /\ Skipped(p)
          /\ Parent(q) = p /\ ~Skipped(q)
          /\ Parent(p) \in Emitted
    /\ \E i \in 1..Len(tree) : tree[i].under # 0

====
